---- MODULE Spec2Model ----
(***************************************************************************)
(* Model of the tracker-api document pipeline: the five request handlers   *)
(* (ingest, extract, parse, validate, write), the document row they update *)
(* through the status store, and the duplicate-signature lookup.           *)
(***************************************************************************)
EXTENDS Integers, Sequences, FiniteSets, TLC

(***************************************************************************)
(* Bounds and input domains                                                *)
(***************************************************************************)

\* Number of write requests a behaviour issues.
MaxWrites == 2

\* Request slots: the write requests that can be in flight at once.
Reqs == {1, 2}

\* Document ids a request may name.
Docs == {1}

\* Signatures a request may carry; "" is the value write reads when
\* normalized_json has no 'signature' key.
Signatures == {"", "sigA", "sigB"}

\* Signatures the documents table can hold.
Indexable == Signatures \ {""}

\* normalized_json['total']: missing key (None), 0, a non-zero number, a
\* non-numeric string.
Amounts == {"absent", "zero", "number", "text"}

\* The collaborators a write request can call (the values of wr[r].calls).
Collaborators == {"duplicate_index", "document_store", "transaction_store", "status_store"}

VARIABLES
    docs,       \* documents table: id -> [status, fields]
    dupIndex,   \* signatures held by the documents table's signature column
    wr,         \* write requests: slot -> the handler's locals and its response
    begun,      \* number of write requests received so far
    stageResp,  \* last response of ingest / extract / parse: [stage, code,
                \* cause, upd], cause naming the collaborator that failed, upd
                \* the outcome of the status update that followed the work
    vin,        \* the validate request: fields, items, signature, and the
                \* collaborators' behaviour during it
    vout,       \* the validate response: [status, reasons, badges]
    call,       \* a call of a service function: its name, arguments and the
                \* behaviour of the libraries and providers it uses
    ret         \* what that call returned or raised

vars == <<docs, dupIndex, wr, begun, stageResp, vin, vout, call, ret>>

(***************************************************************************)
(* Python floats (IEEE-754 binary64, round-half-to-even)                   *)
(*                                                                         *)
(* A non-negative value is held as its binary expansion: a sequence of     *)
(* NBits bits, bit i weighing 2^(IntBits - i).  An operation computes the  *)
(* exact result and rounds it to MantBits significant bits, as the         *)
(* hardware does.  A signed value is [neg, mag].                           *)
(***************************************************************************)

\* Significant bits of a binary64.
MantBits == 53

\* Bits before and after the binary point of the expansions.
IntBits == 18

FracBits == 64

NBits == IntBits + FracBits

RECURSIVE Pow2(_)
Pow2(k) == IF k = 0 THEN 1 ELSE 2 * Pow2(k - 1)

ZeroBits == [i \in 1..NBits |-> 0]

\* Index of the leading 1, or 0 for zero.
FirstOne(b) ==
    IF \E i \in 1..NBits : b[i] = 1
    THEN CHOOSE i \in 1..NBits : b[i] = 1 /\ \A j \in 1..(i - 1) : b[j] = 0
    ELSE 0

\* The recursions below carry their state <<position, carry, bits so far>> as
\* one tuple.
RECURSIVE AddGo(_, _, _)
AddGo(a, b, st) ==
    IF st[1] = 0 THEN st[3]
    ELSE AddGo(a, b, <<st[1] - 1,
                       (a[st[1]] + b[st[1]] + st[2]) \div 2,
                       <<(a[st[1]] + b[st[1]] + st[2]) % 2>> \o st[3]>>)

\* Exact sum of two expansions.
AddBits(a, b) == AddGo(a, b, <<NBits, 0, <<>>>>)

RECURSIVE SubGo(_, _, _)
SubGo(a, b, st) ==
    IF st[1] = 0 THEN st[3]
    ELSE SubGo(a, b, <<st[1] - 1,
                       IF a[st[1]] - b[st[1]] - st[2] < 0 THEN 1 ELSE 0,
                       <<(a[st[1]] - b[st[1]] - st[2] + 2) % 2>> \o st[3]>>)

\* Exact difference a - b of two expansions, a >= b.
SubBits(a, b) == SubGo(a, b, <<NBits, 0, <<>>>>)

LessBits(a, b) ==
    \E i \in 1..NBits : a[i] < b[i] /\ \A j \in 1..(i - 1) : a[j] = b[j]

\* Round an expansion (sticky: a non-zero part lies below the last bit) to
\* MantBits significant bits, ties to even.
Round53(b, sticky) ==
    LET p == FirstOne(b)
    IN  IF p = 0 \/ p + MantBits > NBits THEN b
        ELSE LET last == p + MantBits - 1
                 rest == sticky \/ \E j \in (last + 2)..NBits : b[j] = 1
                 kept == [i \in 1..NBits |-> IF i <= last THEN b[i] ELSE 0]
                 unit == [i \in 1..NBits |-> IF i = last THEN 1 ELSE 0]
             IN  IF b[last + 1] = 1 /\ (rest \/ b[last] = 1)
                 THEN AddBits(kept, unit) ELSE kept

\* Long division by n of the bits of a from position st[1] on, st[2] being the
\* remainder so far: <<position, remainder, quotient bits>> at the end.
RECURSIVE DivGo(_, _, _)
DivGo(a, n, st) ==
    IF st[1] > NBits THEN st
    ELSE DivGo(a, n, <<st[1] + 1,
                       (2 * st[2] + a[st[1]]) % n,
                       st[3] \o <<(2 * st[2] + a[st[1]]) \div n>>>>)

\* The float nearest the decimal n/d (n >= 0): what parsing a JSON number or
\* compiling a literal yields.
FromDecimal(n, d) ==
    LET fr == DivGo(ZeroBits, d, <<IntBits + 1, n % d, <<>>>>)
    IN  Round53([i \in 1..IntBits |-> ((n \div d) \div Pow2(IntBits - i)) % 2] \o fr[3],
                fr[2] # 0)

\* Float division of an expansion by a small positive integer.
DivBits(a, n) ==
    LET r == DivGo(a, n, <<1, 0, <<>>>>)
    IN  Round53(r[3], r[2] # 0)

\* Float addition of two non-negative floats.
FAddBits(a, b) == Round53(AddBits(a, b), FALSE)

\* Signed floats.
Signed(neg, mag) == [neg |-> neg /\ mag # ZeroBits, mag |-> mag]

FNeg(x) == Signed(~x.neg, x.mag)

FAdd(x, y) ==
    IF x.neg = y.neg THEN Signed(x.neg, FAddBits(x.mag, y.mag))
    ELSE IF LessBits(x.mag, y.mag)
    THEN Signed(y.neg, Round53(SubBits(y.mag, x.mag), FALSE))
    ELSE Signed(x.neg, Round53(SubBits(x.mag, y.mag), FALSE))

FSub(x, y) == FAdd(x, FNeg(y))

FAbs(x) == Signed(FALSE, x.mag)

FLess(x, y) ==
    IF x.neg # y.neg THEN x.neg
    ELSE IF x.neg THEN LessBits(y.mag, x.mag) ELSE LessBits(x.mag, y.mag)

FDiv(x, n) == Signed(x.neg, DivBits(x.mag, n))

\* The float of a decimal given in hundredths (cents may be negative).
FromCents(c) ==
    IF c < 0 THEN Signed(TRUE, FromDecimal(-c, 100)) ELSE Signed(FALSE, FromDecimal(c, 100))

\* No service function has been called.
NoCall == [fn |-> "none"]

NoReturn == [fn |-> "none"]

(***************************************************************************)
(* Collaborators (supabase_service.py)                                     *)
(***************************************************************************)

\* The faulty variant whose update is lost without an error.
update_document_status_lost(tbl, d, st, flds, outcome) == tbl

\* The faulty variant whose failed update has written the status all the same.
update_document_status_writesAnyway(tbl, d, st, flds, outcome) ==
    [tbl EXCEPT ![d] = [status |-> st, fields |-> @.fields \cup flds]]

\* update_document_status: the RPC sets the status and the given columns, or
\* raises (outcome "fail") and leaves the row alone.
update_document_status(tbl, d, st, flds, outcome) ==
    IF outcome = "ok"
    THEN [tbl EXCEPT ![d] = [status |-> st, fields |-> @.fields \cup flds]]
    ELSE tbl

\* The faulty variant that takes a lookup error for a duplicate.
check_duplicate_signature_failClosed(sig, outcome) ==
    outcome = "error" \/ sig \in dupIndex

\* A lookup that never finds anything: the model's faulty variant.
check_duplicate_signature_never(sig, outcome) == FALSE

\* check_duplicate_signature: the first signature column that can be queried
\* answers len(result.data) > 0; any error answers False.
check_duplicate_signature(sig, outcome) ==
    IF outcome = "error" THEN FALSE ELSE sig \in dupIndex

\* check_duplicate (validation_service.py) delegates to the lookup.
check_duplicate(sig, outcome) == check_duplicate_signature(sig, outcome)

(***************************************************************************)
(* write_transaction (api/v1/write.py)                                     *)
(***************************************************************************)

IdleReq ==
    [pc |-> "idle", doc |-> 1, sig |-> "", force |-> FALSE, amount |-> "absent",
     result |-> "none", calls |-> {}, lookup |-> "none", fetch |-> "none",
     committed |-> FALSE, prior |-> "none", upd |-> "none"]

\* The faulty variant `if amount is None`.
Falsy_noneOnly(amount) == amount = "absent"

\* Python truthiness of the amount: `not amount` holds for None and 0.
Falsy(amount) == amount \in {"absent", "zero"}

\* float(amount) raises for a non-numeric string.
FloatRaises(amount) == amount = "text"

\* Whether the handler consults the duplicate index (lines 27-30).
Consulted(req) == ~req.force /\ req.sig # ""

\* The faulty variant that ignores force.
WriteCheckResult_ignoreForce(req, outcome) ==
    IF req.sig # "" /\ check_duplicate(req.sig, outcome)
    THEN [pc |-> "done", result |-> "skipped_duplicate", calls |-> {"duplicate_index"}]
    ELSE IF Falsy(req.amount)
    THEN [pc |-> "done", result |-> "http400", calls |-> {"duplicate_index"}]
    ELSE [pc |-> "commit", result |-> "none", calls |-> {"duplicate_index"}]

\* The faulty variant in which the duplicate path falls through to the status
\* update.
WriteCheckResult_fallThrough(req, outcome) ==
    IF Consulted(req) /\ check_duplicate(req.sig, outcome)
    THEN [pc |-> "status", result |-> "none", calls |-> {"duplicate_index"}]
    ELSE IF Falsy(req.amount)
    THEN [pc |-> "done", result |-> "http400", calls |-> {}]
    ELSE [pc |-> "commit", result |-> "none", calls |-> {}]

\* Lines 26-58: the duplicate check (unless forced, and only for a non-empty
\* signature), then the required-amount check.
WriteCheckResult(req, outcome) ==
    LET called == IF Consulted(req) THEN {"duplicate_index"} ELSE {}
    IN  IF Consulted(req) /\ check_duplicate(req.sig, outcome)
        THEN [pc |-> "done", result |-> "skipped_duplicate", calls |-> called]
        ELSE IF Falsy(req.amount)
        THEN [pc |-> "done", result |-> "http400", calls |-> called]
        ELSE [pc |-> "commit", result |-> "none", calls |-> called]

\* The slot an arriving request takes: the first slot never used, or, when
\* all have been used, the first whose request has been answered.
Takes(r) ==
    LET unused   == {q \in Reqs : wr[q].pc = "idle"}
        answered == {q \in Reqs : wr[q].pc = "done"}
        free     == IF unused # {} THEN unused ELSE answered
    IN  r \in free /\ \A q \in free : r <= q

\* What the slots hold for the same signature and force when a request
\* arrives: an answered `created`, a request still in flight, or neither.
PriorOf(sig, force) ==
    LET same == {q \in Reqs : wr[q].sig = sig /\ wr[q].force = force}
    IN  IF \E q \in same : wr[q].pc = "done" /\ wr[q].result = "created"
        THEN "created"
        ELSE IF \E q \in same : wr[q].pc \in {"commit", "status"}
        THEN "inflight"
        ELSE "none"

\* A request arrives and runs up to the end of the required-field check.
WriteCheck(r, d, sig, force, amount) ==
    /\ begun < MaxWrites
    /\ Takes(r)
    /\ \E outcome \in {"ok", "error"} :
         LET req == [doc |-> d, sig |-> sig, force |-> force, amount |-> amount]
             res == WriteCheckResult(req, outcome)
         IN  wr' = [wr EXCEPT ![r] =
                      [pc |-> res.pc, doc |-> d, sig |-> sig, force |-> force,
                       amount |-> amount, result |-> res.result, calls |-> res.calls,
                       lookup |-> IF Consulted(req) THEN outcome ELSE "none",
                       fetch |-> "none", committed |-> FALSE,
                       prior |-> PriorOf(sig, force), upd |-> "none"]]
    /\ begun' = begun + 1
    /\ UNCHANGED <<docs, dupIndex, stageResp, vin, vout, call, ret>>

\* Lines 60-121: fetch the document's user_id, then create the transaction;
\* when creation fails, mark the document failed and answer 500.
WriteCommit(r) ==
    /\ wr[r].pc = "commit"
    /\ \E fetch \in {"found", "missing", "error"},
          rpc \in {"success", "failure"}, upd \in {"ok", "fail"} :
         IF fetch # "found"
         THEN /\ rpc = "success" /\ upd = "ok"
              /\ wr' = [wr EXCEPT ![r].pc = "done", ![r].fetch = fetch,
                          ![r].result = IF fetch = "missing" THEN "http404" ELSE "http500",
                          ![r].calls = @ \cup {"document_store"}]
              /\ docs' = docs
         ELSE IF FloatRaises(wr[r].amount)
         THEN /\ rpc = "success"
              /\ wr' = [wr EXCEPT ![r].pc = "done", ![r].result = "http500",
                          ![r].fetch = fetch, ![r].upd = upd,
                          ![r].calls = @ \cup {"document_store", "status_store"}]
              /\ docs' = update_document_status(docs, wr[r].doc, "failed",
                                                {"processing_error"}, upd)
         ELSE IF rpc = "success"
         THEN /\ upd = "ok"
              /\ wr' = [wr EXCEPT ![r].pc = "status", ![r].committed = TRUE,
                          ![r].fetch = fetch,
                          ![r].calls = @ \cup {"document_store", "transaction_store"}]
              /\ docs' = docs
         ELSE /\ wr' = [wr EXCEPT ![r].pc = "done", ![r].result = "http500",
                          ![r].fetch = fetch, ![r].upd = upd,
                          ![r].calls = @ \cup {"document_store", "transaction_store",
                                               "status_store"}]
              /\ docs' = update_document_status(docs, wr[r].doc, "failed",
                                                {"processing_error"}, upd)
    /\ UNCHANGED <<dupIndex, begun, stageResp, vin, vout, call, ret>>

\* Lines 123-137: record transaction_created (a failed update is only logged)
\* and answer created.
WriteStatus(r) ==
    /\ wr[r].pc = "status"
    /\ \E upd \in {"ok", "fail"} :
         /\ docs' = update_document_status(docs, wr[r].doc, "transaction_created", {}, upd)
         /\ wr' = [wr EXCEPT ![r].pc = "done", ![r].result = "created", ![r].upd = upd,
                             ![r].calls = @ \cup {"status_store"}]
    /\ UNCHANGED <<dupIndex, begun, stageResp, vin, vout, call, ret>>

(***************************************************************************)
(* ingest, extract, parse (api/v1/ingest.py, extract.py, parse.py)         *)
(***************************************************************************)

\* ingest_document: download, classify, then record 'ingested' (a failed
\* update is only logged).
ingest_document(d) ==
    \E dl \in {"ok", "fail"}, upd \in {"ok", "fail"} :
       /\ IF dl = "fail"
          THEN /\ upd = "ok"
               /\ docs' = docs
               /\ stageResp' = [stage |-> "ingest", code |-> 500, cause |-> "download",
                                upd |-> "none"]
          ELSE /\ docs' = update_document_status(docs, d, "ingested", {}, upd)
               /\ stageResp' = [stage |-> "ingest", code |-> 200, cause |-> "none",
                                upd |-> upd]
       /\ UNCHANGED <<dupIndex, wr, begun, vin, vout, call, ret>>

\* extract_document_text: record 'processing', look the document up, download
\* it, extract the text, record 'ocr_completed' with the text.
extract_document_text(d) ==
    \E u1 \in {"ok", "fail"}, fetch \in {"found", "missing", "error"},
       work \in {"ok", "download_fails", "extraction_fails"}, u2 \in {"ok", "fail"} :
       LET t1 == update_document_status(docs, d, "processing", {}, u1)
       IN  /\ IF fetch # "found"
              THEN /\ work = "ok" /\ u2 = "ok"
                   /\ docs' = t1
                   /\ stageResp' = [stage |-> "extract",
                                    code |-> IF fetch = "missing" THEN 404 ELSE 500,
                                    cause |-> "document_lookup", upd |-> "none"]
              ELSE IF work # "ok"
              THEN /\ docs' = update_document_status(t1, d, "failed",
                                                     {"processing_error"}, u2)
                   /\ stageResp' = [stage |-> "extract", code |-> 500,
                                    cause |-> IF work = "download_fails"
                                              THEN "download" ELSE "text_extraction",
                                    upd |-> u2]
              ELSE /\ docs' = update_document_status(t1, d, "ocr_completed",
                                                     {"raw_markdown_output"}, u2)
                   /\ stageResp' = [stage |-> "extract", code |-> 200, cause |-> "none",
                                    upd |-> u2]
           /\ UNCHANGED <<dupIndex, wr, begun, vin, vout, call, ret>>

\* parse_document: reject short text, call the language model, then write
\* status 'parsed' and the parsed columns straight to the documents table.
parse_document(d) ==
    \E text \in {"short", "long"}, llm \in {"ok", "fail"}, upd \in {"ok", "fail"} :
       /\ IF text = "short"
          THEN /\ llm = "ok" /\ upd = "ok"
               /\ docs' = docs
               /\ stageResp' = [stage |-> "parse", code |-> 400, cause |-> "short_text",
                                upd |-> "none"]
          ELSE IF llm = "fail"
          THEN /\ docs' = update_document_status(docs, d, "failed",
                                                 {"processing_error"}, upd)
               /\ stageResp' = [stage |-> "parse", code |-> 500, cause |-> "completion",
                                upd |-> upd]
          ELSE /\ docs' = update_document_status(docs, d, "parsed",
                                                 {"parsed_fields"}, upd)
               /\ stageResp' = [stage |-> "parse", code |-> 200, cause |-> "none",
                                upd |-> upd]
       /\ UNCHANGED <<dupIndex, wr, begun, vin, vout, call, ret>>

(***************************************************************************)
(* validate (services/validation_service.py, parsing_service.py)           *)
(***************************************************************************)

\* Inputs.  A text field is "absent" (no key), "null" (value None), "empty"
\* (value "") or a string.  A number field is [kind, cents] with kind absent,
\* null, number (cents/100) or text (a non-numeric string).  A date is
\* [kind, off]: absent, null, empty, text (a string strptime rejects), number
\* (a non-string value) or date (a YYYY-MM-DD string, off days after today).
NumAbsent == [kind |-> "absent", cents |-> 0]

NumNull == [kind |-> "null", cents |-> 0]

NumText == [kind |-> "text", cents |-> 0]

Num(c) == [kind |-> "number", cents |-> c]

DateKind(k) == [kind |-> k, off |-> 0]

DateAt(off) == [kind |-> "date", off |-> off]

MerchantInputs == {"absent", "null", "Starbucks"}

DateInputs == {DateKind("absent"), DateKind("text"), DateAt(1), DateAt(0), DateAt(-1826)}

TotalInputs == {NumAbsent, NumNull, Num(0), Num(1250), Num(10000001)}

SubtotalInputs == {NumAbsent, Num(1000), Num(1150)}

TaxInputs == {NumAbsent, Num(100)}

\* Item amounts, in cents.
ItemInputs == {<<>>, <<1000, 150>>}

CurrencyInputs == {"absent", "MYR", "XXX"}

\* Field confidences, in hundredths.
ConfCents == {60, 70, 90}

\* datetime.now() is today at midnight exactly (0) or later in the day (1).
TimesOfDay == {1}

SUPPORTED_CURRENCIES == {"MYR", "USD", "SGD", "EUR", "GBP", "JPY", "CNY"}

\* settings.TOTALS_TOLERANCE, the literals 100000, 0.7 and 0.9, 365 * 5 days.
TOTALS_TOLERANCE == FromCents(1)

TotalLimit == FromCents(100000 * 100)

ConfidenceThreshold == FromCents(70)

HighConfidence == FromCents(90)

DateAgeLimitDays == 365 * 5

\* validate_schema: one reason per required field, in the order merchant,
\* date, total.
SchemaReason(isAbsent, isEmpty) ==
    IF isAbsent THEN <<"MISSING_FIELD">>
    ELSE IF isEmpty THEN <<"EMPTY_FIELD">>
    ELSE <<>>

\* The faulty variant that stops at the first field with a reason.
validate_schema_firstOnly(f) ==
    IF f.merchant \in {"absent", "null", "empty"}
    THEN SchemaReason(f.merchant = "absent", TRUE)
    ELSE IF f.date.kind \in {"absent", "null", "empty"}
    THEN SchemaReason(f.date.kind = "absent", TRUE)
    ELSE SchemaReason(f.total.kind = "absent", f.total.kind = "null")

validate_schema(f) ==
    SchemaReason(f.merchant = "absent", f.merchant \in {"null", "empty"})
    \o SchemaReason(f.date.kind = "absent", f.date.kind \in {"null", "empty"})
    \o SchemaReason(f.total.kind = "absent", f.total.kind = "null")

\* dict.get('value') of a number field: None when the key is absent or null.
IsNone(x) == x.kind \in {"absent", "null"}

RECURSIVE SumItems(_, _)
\* sum(item.get('amount', 0) for item in items), left to right from 0.
SumItems(items, acc) ==
    IF items = <<>> THEN acc
    ELSE SumItems(Tail(items), FAdd(acc, FromCents(Head(items))))

\* |x - y| > tolerance
OverTolerance(x, y) == FLess(TOTALS_TOLERANCE, FAbs(FSub(x, y)))

\* Lines 79-88: the subtotal + tax = total check; "raise" when an operand is
\* not a number.
MathCheck(m) ==
    IF IsNone(m.subtotal) \/ IsNone(m.tax) THEN <<>>
    ELSE IF m.subtotal.kind = "text" \/ m.tax.kind = "text" THEN <<"raise">>
    ELSE IF OverTolerance(FAdd(FromCents(m.subtotal.cents), FromCents(m.tax.cents)),
                          FromCents(m.total.cents))
    THEN <<"MATH_ERROR">>
    ELSE <<>>

\* Lines 90-100: the items check.
ItemsCheck(m) ==
    IF m.items = <<>> \/ IsNone(m.subtotal) THEN <<>>
    ELSE IF m.subtotal.kind = "text" THEN <<"raise">>
    ELSE IF OverTolerance(SumItems(m.items, FromCents(0)), FromCents(m.subtotal.cents))
    THEN <<"ITEMS_MISMATCH">>
    ELSE <<>>

\* The faulty variant without the `except Exception` of the rule: the
\* exception leaves the rule.
UntilRaise_uncaught(codes) == codes

\* The `except Exception` of a rule: the reasons appended before the exception,
\* then VALIDATION_ERROR in its place.
RECURSIVE UntilRaise(_)
UntilRaise(codes) ==
    IF codes = <<>> THEN <<>>
    ELSE IF Head(codes) = "raise" THEN <<"VALIDATION_ERROR">>
    ELSE <<Head(codes)>> \o UntilRaise(Tail(codes))

\* validate_math on m = [total, subtotal, tax, items].
validate_math(m) ==
    IF IsNone(m.total) THEN <<>>
    ELSE IF m.total.kind = "text" THEN UntilRaise(<<"raise">>)
    ELSE UntilRaise(
           (IF ~FLess(FromCents(0), FromCents(m.total.cents))
            THEN <<"INVALID_TOTAL">> ELSE <<>>)
        \o (IF FLess(TotalLimit, FromCents(m.total.cents))
            THEN <<"TOTAL_TOO_HIGH">> ELSE <<>>)
        \o MathCheck(m)
        \o (IF "raise" \in {MathCheck(m)[i] : i \in 1..Len(MathCheck(m))}
            THEN <<>> ELSE ItemsCheck(m)))

\* Amounts around the tolerance, a tax of 0, a total that is missing or 0.
MathBoundaryInputs ==
    [total : {NumAbsent, NumNull, Num(0), Num(100), Num(1250)},
     subtotal : {NumAbsent, Num(0), Num(51), Num(100), Num(1000), Num(1150)},
     tax : {NumAbsent, Num(0), Num(50), Num(100)},
     items : {<<>>, <<1000, 150>>, <<51, 50>>}]

MathInputs ==
    [total : TotalInputs \cup {NumText}, subtotal : SubtotalInputs \cup {NumText},
     tax : TaxInputs \cup {NumText}, items : ItemInputs]
    \cup MathBoundaryInputs

\* validate_math over the inputs of the model, computed once, as pairs
\* <<input, reasons>>.
MathTable == {<<m, validate_math(m)>> : m \in MathInputs}

MathReasons(m) == (CHOOSE p \in MathTable : p[1] = m)[2]

\* validate_date: the date is compared with datetime.now(), in half days:
\* the date is midnight of day `off`, now is day 0 at time of day tod.
\* strptime raises ValueError for a string of another format (caught: 
\* INVALID_DATE_FORMAT) and TypeError for a value that is no string.
validate_date(f) ==
    IF f.date.kind \in {"absent", "null", "empty"} THEN <<>>
    ELSE IF f.date.kind = "number" THEN UntilRaise(<<"raise">>)
    ELSE IF f.date.kind = "text" THEN <<"INVALID_DATE_FORMAT">>
    ELSE (IF 2 * f.date.off > f.tod THEN <<"FUTURE_DATE">> ELSE <<>>)
      \o (IF 2 * f.date.off < f.tod - 2 * DateAgeLimitDays
          THEN <<"DATE_TOO_OLD">> ELSE <<>>)

\* validate_currency
validate_currency(f) ==
    IF f.currency \notin {"absent", "null", "empty"} /\ f.currency \notin SUPPORTED_CURRENCIES
    THEN <<"UNSUPPORTED_CURRENCY">>
    ELSE <<>>

\* The confidences of the critical fields that are present, in the order
\* merchant, date, total.
PresentConfidences(f) ==
    (IF f.merchant # "absent" THEN <<f.conf.merchant>> ELSE <<>>)
    \o (IF f.date.kind # "absent" THEN <<f.conf.date>> ELSE <<>>)
    \o (IF f.total.kind # "absent" THEN <<f.conf.total>> ELSE <<>>)

RECURSIVE SumFloats(_, _)
\* sum(confidences), left to right from 0.
SumFloats(cs, acc) ==
    IF cs = <<>> THEN acc ELSE SumFloats(Tail(cs), FAdd(acc, FromCents(Head(cs))))

\* calculate_overall_confidence on the present confidences: their float mean,
\* 0.5 when there is none.
calculate_overall_confidence(cs) ==
    IF cs = <<>> THEN FromCents(50)
    ELSE FDiv(SumFloats(cs, FromCents(0)), Len(cs))

ConfidenceLists == UNION {[1..n -> ConfCents] : n \in 0..3}

\* The overall confidence of each list of confidences of the model and the two
\* comparisons validate makes with it, computed once.
ConfidenceTable ==
    {<<cs, [below |-> FLess(calculate_overall_confidence(cs), ConfidenceThreshold),
            high  |-> ~FLess(calculate_overall_confidence(cs), HighConfidence)]>> :
        cs \in ConfidenceLists}

OverallConfidence(cs) == (CHOOSE p \in ConfidenceTable : p[1] = cs)[2]

\* The faulty variant that does not treat a future date as critical.
CriticalCodes_noFutureDate == {"MISSING_FIELD", "INVALID_TOTAL", "DUPLICATE"}

\* Line 244: the codes that reject.
CriticalCodes == {"MISSING_FIELD", "INVALID_TOTAL", "FUTURE_DATE", "DUPLICATE"}

Codes(reasons) == {reasons[i] : i \in 1..Len(reasons)}

\* Lines 224-228: the four rules, in order.
RuleReasons(f) ==
    validate_schema(f)
    \o MathReasons([total |-> f.total, subtotal |-> f.subtotal, tax |-> f.tax,
                    items |-> f.items])
    \o validate_date(f)
    \o validate_currency(f)

NoBadges == [status |-> "none", confidence |-> "none"]

\* Lines 239-273: status and badges when the signature is no duplicate.
Decide(reasons, oc) ==
    LET tier == IF oc.high THEN "High" ELSE IF ~oc.below THEN "Medium" ELSE "Low"
    IN  IF Codes(reasons) \cap CriticalCodes # {}
        THEN [status |-> "rejected", reasons |-> reasons,
              badges |-> [status |-> "Rejected", confidence |-> tier]]
        ELSE IF reasons # <<>>
        THEN [status |-> "needs_review", reasons |-> reasons,
              badges |-> [status |-> "Needs Review", confidence |-> tier]]
        ELSE IF oc.below
        THEN [status |-> "needs_review", reasons |-> <<"LOW_CONFIDENCE">>,
              badges |-> [status |-> "Low Confidence", confidence |-> tier]]
        ELSE [status |-> "approved", reasons |-> reasons,
              badges |-> [status |-> "Auto-Approved", confidence |-> tier]]

\* The faulty variant that reports DUPLICATE alone.
validate_parsed_data_duplicateOnly(f) ==
    IF check_duplicate(f.sig, f.lookup)
    THEN [status |-> "rejected", reasons |-> <<"DUPLICATE">>, badges |-> NoBadges]
    ELSE Decide(RuleReasons(f), OverallConfidence(PresentConfidences(f)))

\* validate_parsed_data
validate_parsed_data(f) ==
    IF check_duplicate(f.sig, f.lookup)
    THEN [status |-> "rejected", reasons |-> RuleReasons(f) \o <<"DUPLICATE">>,
          badges |-> NoBadges]
    ELSE Decide(RuleReasons(f), OverallConfidence(PresentConfidences(f)))

NoInput ==
    [merchant |-> "absent", date |-> DateKind("absent"), total |-> NumAbsent,
     subtotal |-> NumAbsent, tax |-> NumAbsent, items |-> <<>>, currency |-> "absent",
     conf |-> [merchant |-> 0, date |-> 0, total |-> 0],
     sig |-> "", lookup |-> "ok", tod |-> 0]

NoResult == [status |-> "none", reasons |-> <<>>, badges |-> NoBadges]

\* Requests with any fields, the three confidences equal.
AnyFields ==
    {[merchant |-> me, date |-> da, total |-> to, subtotal |-> su, tax |-> ta,
      items |-> it, currency |-> cu,
      conf |-> [merchant |-> c, date |-> c, total |-> c],
      sig |-> sg, lookup |-> lo, tod |-> td] :
        me \in MerchantInputs, da \in DateInputs, to \in TotalInputs,
        su \in SubtotalInputs, ta \in TaxInputs, it \in ItemInputs,
        cu \in CurrencyInputs, c \in ConfCents,
        sg \in Indexable, lo \in {"ok", "error"}, td \in TimesOfDay}

\* Requests with any confidences, for the record of the end-to-end scenario:
\* merchant "Starbucks", today's date, total 12.50, no subtotal, tax or items.
AnyConfidences ==
    {[merchant |-> "Starbucks", date |-> DateAt(0), total |-> Num(1250),
      subtotal |-> NumAbsent, tax |-> NumAbsent, items |-> <<>>, currency |-> cu,
      conf |-> [merchant |-> cm, date |-> cd, total |-> ct],
      sig |-> sg, lookup |-> lo, tod |-> td] :
        cu \in CurrencyInputs, cm \in ConfCents, cd \in ConfCents, ct \in ConfCents,
        sg \in Indexable, lo \in {"ok", "error"}, td \in TimesOfDay}

\* Requests with values of other types: a non-numeric total, subtotal or tax,
\* a date that is a number.
OddValues ==
    {[merchant |-> me, date |-> da, total |-> to, subtotal |-> su, tax |-> ta,
      items |-> it, currency |-> "MYR",
      conf |-> [merchant |-> 90, date |-> 90, total |-> 90],
      sig |-> "sigB", lookup |-> "ok", tod |-> td] :
        me \in MerchantInputs, da \in DateInputs \cup {DateKind("number")},
        to \in TotalInputs \cup {NumText},
        su \in {NumAbsent, Num(1000), NumText}, ta \in {NumAbsent, Num(100), NumText},
        it \in ItemInputs, td \in TimesOfDay}

\* Dates around the age limit, at midnight exactly and later in the day.
AgeBoundary ==
    {[merchant |-> "Starbucks", date |-> DateAt(-off), total |-> Num(1250),
      subtotal |-> NumAbsent, tax |-> NumAbsent, items |-> <<>>, currency |-> cu,
      conf |-> [merchant |-> 90, date |-> 90, total |-> 90],
      sig |-> sg, lookup |-> lo, tod |-> td] :
        off \in (DateAgeLimitDays - 1)..(DateAgeLimitDays + 2),
        cu \in CurrencyInputs, sg \in Indexable, lo \in {"ok", "error"}, td \in {0, 1}}

\* Requests with the amounts of MathBoundaryInputs, otherwise clean.
MathBoundary ==
    {[merchant |-> "Starbucks", date |-> DateAt(0), total |-> m.total,
      subtotal |-> m.subtotal, tax |-> m.tax, items |-> m.items, currency |-> "MYR",
      conf |-> [merchant |-> 90, date |-> 90, total |-> 90],
      sig |-> sg, lookup |-> "ok", tod |-> 1] :
        m \in MathBoundaryInputs, sg \in Indexable}

\* Requests whose required fields are absent, null, empty or given, with and
\* without reasons of the later rules.
SchemaCases ==
    {[merchant |-> me, date |-> da, total |-> to,
      subtotal |-> su, tax |-> Num(100), items |-> <<>>, currency |-> cu,
      conf |-> [merchant |-> 90, date |-> 90, total |-> 90],
      sig |-> sg, lookup |-> "ok", tod |-> 1] :
        me \in {"absent", "null", "empty", "Starbucks"},
        da \in {DateKind("absent"), DateKind("null"), DateKind("empty"),
                DateKind("text"), DateAt(0)},
        to \in {NumAbsent, NumNull, Num(0), Num(1250)},
        su \in {Num(1000), Num(1150)}, cu \in {"MYR", "XXX"}, sg \in Indexable}

ValidateInputs ==
    AnyFields \cup AnyConfidences \cup OddValues \cup AgeBoundary \cup MathBoundary
    \cup SchemaCases

\* An exception left a rule of validate_parsed_data.
Raises(f) == "raise" \in Codes(RuleReasons(f))

\* The validate request is answered: with the result, or with 500 when
\* validate_parsed_data raised.
validate_document ==
    /\ vout = NoResult
    /\ vin # NoInput
    /\ vout' = IF Raises(vin)
               THEN [status |-> "http500", reasons |-> <<>>, badges |-> NoBadges]
               ELSE validate_parsed_data(vin)
    /\ UNCHANGED <<docs, dupIndex, wr, begun, stageResp, vin, call, ret>>

(***************************************************************************)
(* extract_text, detect_pdf_type (services/extraction_service.py)          *)
(***************************************************************************)

\* The OCR providers the settings and the response model name, in the order
\* of their feature flags: ENABLE_PADDLE_OCR, ENABLE_MISTRAL_FALLBACK,
\* ENABLE_VISION_FALLBACK.
Providers == <<"paddle", "mistral", "vision">>

ProviderNames == {Providers[i] : i \in 1..Len(Providers)}

\* What a provider does with the file when it is called: it returns text,
\* text that is all whitespace, or no text; it answers with an HTTP error; it
\* times out.
Behaviours == {"text", "blank", "empty", "error", "timeout"}

\* What pdfminer does with the bytes: it raises, or returns a text whose
\* stripped length is len.
ProbeRaises == [ok |-> FALSE, len |-> 0]

ProbeText(n) == [ok |-> TRUE, len |-> n]

Probes == {ProbeRaises, ProbeText(0), ProbeText(49), ProbeText(50), ProbeText(51)}

MimeTypes == {"application/pdf", "image/png", "text/plain"}

Raised(msg) == [fn |-> "extract_text", ok |-> FALSE, provider |-> "none",
               text |-> "none", confidence_hint |-> 0, error |-> msg]

Returned(provider, text) ==
    [fn |-> "extract_text", ok |-> TRUE, provider |-> provider, text |-> text,
     confidence_hint |-> IF provider = "native-text" THEN 95 ELSE 85,
     error |-> "none"]

\* The faulty variant that asks for 500 characters.
extract_pdf_text_longText(probe) ==
    IF ~probe.ok THEN Raised("pdfminer error")
    ELSE IF probe.len < 500 THEN Raised("Insufficient text extracted from PDF")
    ELSE Returned("native-text", "text")

\* extract_pdf_text: raises when pdfminer raises or the stripped text is
\* shorter than 50 characters.
extract_pdf_text(probe) ==
    IF ~probe.ok THEN Raised("pdfminer error")
    ELSE IF probe.len < 50 THEN Raised("Insufficient text extracted from PDF")
    ELSE Returned("native-text", "text")

\* ocr_with_mistral: refuses PDFs, needs the API key, raises on an HTTP
\* error, a timeout or an empty completion, returns the stripped text.
ocr_with_mistral(mime, hasKey, behaviour) ==
    IF mime = "application/pdf" THEN Raised("Mistral OCR does not support PDFs")
    ELSE IF ~hasKey THEN Raised("Mistral API key not configured")
    ELSE IF behaviour = "timeout" THEN Raised("Mistral timeout")
    ELSE IF behaviour = "error" THEN Raised("Mistral HTTP error")
    ELSE IF behaviour = "empty"
    THEN Raised("No text extracted from Mistral OCR")
    ELSE Returned("mistral", IF behaviour = "blank" THEN "empty" ELSE "text")

\* extract_text on c = [mime, ingest_kind, enabled, hasKey, behaviour, probe].
extract_text(c) ==
    IF c.ingest_kind = "digital" /\ c.mime = "application/pdf"
    THEN extract_pdf_text(c.probe)
    ELSE IF c.ingest_kind = "scanned"
    THEN IF c.enabled["mistral"]
         THEN ocr_with_mistral(c.mime, c.hasKey, c.behaviour["mistral"])
         ELSE Raised("No OCR provider enabled for scanned documents")
    ELSE Raised("Unsupported combination")

\* Every provider returning text, timing out or returning nothing, and every
\* behaviour of Mistral beside two providers that return text.
BehaviourMaps ==
    [ProviderNames -> {"text", "empty", "timeout"}]
    \cup {[p \in ProviderNames |-> IF p = "mistral" THEN b ELSE "text"] : b \in Behaviours}

ExtractCalls ==
    {[fn |-> "extract_text", mime |-> mi, ingest_kind |-> ki, enabled |-> en,
      hasKey |-> ke, behaviour |-> be, probe |-> pr] :
        mi \in MimeTypes, ki \in {"digital", "scanned"},
        en \in [ProviderNames -> BOOLEAN], ke \in BOOLEAN,
        be \in BehaviourMaps,
        pr \in Probes}

\* extract_text is called and returns or raises.
extract_text_call ==
    /\ call.fn = "extract_text"
    /\ ret = NoReturn
    /\ ret' = extract_text(call)
    /\ UNCHANGED <<docs, dupIndex, wr, begun, stageResp, vin, vout, call>>

\* The faulty variant that takes 50 characters for a text layer.
detect_pdf_type_atLeast(probe) ==
    IF probe.ok /\ probe.len >= 50 THEN "digital" ELSE "scanned"

\* detect_pdf_type (lines 21-57): digital when the stripped text of the probe
\* is longer than the threshold, scanned otherwise and when the probe raises.
detect_pdf_type(probe) ==
    IF probe.ok /\ probe.len > 50 THEN "digital" ELSE "scanned"

\* api/v1/ingest.py, lines 39-49: scanned unless detect_pdf_type says digital
\* of a PDF.
classify(mime, probe) ==
    IF mime = "application/pdf" THEN detect_pdf_type(probe) ELSE "scanned"

ClassifyCalls == {[fn |-> "classify", mime |-> mi, probe |-> pr] : mi \in MimeTypes, pr \in Probes}

classify_call ==
    /\ call.fn = "classify"
    /\ ret = NoReturn
    /\ ret' = [fn |-> "classify", ingest_kind |-> classify(call.mime, call.probe)]
    /\ UNCHANGED <<docs, dupIndex, wr, begun, stageResp, vin, vout, call>>

(***************************************************************************)
(* The signature (services/parsing_service.py, lines 236-247)              *)
(***************************************************************************)

\* A JSON value of the completion: t is "none" (null), "str" (s its
\* characters), "int" (n the integer) or "float" (n in hundredths).
JVal(t, s, n) == [t |-> t, s |-> s, n |-> n]

\* A field of the completion: the key is "absent", the field is "null", an
\* object without 'value' ("novalue"), an object with the value v ("dict"), or
\* the bare value v ("bare").
Field(form, v) == [form |-> form, v |-> v]

RECURSIVE Digits(_)
\* str(n) of an integer n >= 0.
Digits(n) ==
    LET d == <<"0", "1", "2", "3", "4", "5", "6", "7", "8", "9">>[(n % 10) + 1]
    IN  IF n < 10 THEN <<d>> ELSE Digits(n \div 10) \o <<d>>

\* repr of the float c/100: the shortest decimal, with at least one digit
\* after the point.
FloatRepr(c) ==
    Digits(c \div 100) \o <<".">>
    \o (IF c % 10 = 0 THEN Digits((c % 100) \div 10)
        ELSE Digits((c % 100) \div 10) \o Digits(c % 10))

\* What an f-string makes of a value.
Format(v) ==
    CASE v.t = "none"  -> <<"N", "o", "n", "e">>
      [] v.t = "str"   -> v.s
      [] v.t = "int"   -> Digits(v.n)
      [] v.t = "float" -> FloatRepr(v.n)

\* Python truthiness of a value.
Truthy(v) == IF v.t = "none" THEN FALSE ELSE IF v.t = "str" THEN v.s # <<>> ELSE v.n # 0

Unknown == <<"u", "n", "k", "n", "o", "w", "n">>

\* Lines 237-241: the merchant or date component:
\* field.get('value', 'unknown') of an object, else str(field) if field else
\* 'unknown'.
TextComponent(field) ==
    CASE field.form \in {"absent", "novalue"} -> Unknown
      [] field.form = "dict" -> Format(field.v)
      [] field.form = "null" -> Unknown
      [] field.form = "bare" -> IF Truthy(field.v) THEN Format(field.v) ELSE Unknown

\* Lines 242-244: the total component: field.get('value', 0) of an object, else
\* field if field else 0.
TotalComponent(field) ==
    CASE field.form \in {"absent", "novalue"} -> <<"0">>
      [] field.form = "dict" -> Format(field.v)
      [] field.form = "null" -> <<"0">>
      [] field.form = "bare" -> IF Truthy(field.v) THEN Format(field.v) ELSE <<"0">>

\* hashlib.sha256(s.encode()).hexdigest(): the digest of s, distinct strings
\* having distinct digests.
sha256(s) == [digest_of |-> s]

\* Lines 246-247: sha256 of f"{merchant}|{date}|{total}".
signature_of(p) ==
    sha256(TextComponent(p.merchant) \o <<"|">> \o TextComponent(p.date)
           \o <<"|">> \o TotalComponent(p.total))

\* Completions of the language model, as far as the signature reads them.
Completions ==
    LET none == JVal("none", <<>>, 0)
    IN  [merchant : {Field("absent", none), Field("null", none), Field("novalue", none),
                     Field("dict", none),
                     Field("dict", JVal("str", <<"S", "b">>, 0)),
                     Field("dict", JVal("str", <<"s", "b">>, 0)),
                     Field("dict", JVal("str", <<" ", "S", "b", " ">>, 0)),
                     Field("bare", JVal("str", <<"S", "b">>, 0))},
         date : {Field("absent", none), Field("dict", none),
                 Field("dict", JVal("str", <<"2", "0", "2", "5", "-", "1", "0", "-", "2", "9">>, 0))},
         total : {Field("absent", none), Field("null", none), Field("dict", none),
                  Field("dict", JVal("int", <<>>, 12)), Field("dict", JVal("float", <<>>, 1200)),
                  Field("dict", JVal("float", <<>>, 1250))}]

\* Two parse results are signed.
SignatureCalls == {[fn |-> "signature", a |-> a, b |-> b] : a \in Completions, b \in Completions}

signature_call ==
    /\ call.fn = "signature"
    /\ ret = NoReturn
    /\ ret' = [fn |-> "signature", a |-> signature_of(call.a), b |-> signature_of(call.b)]
    /\ UNCHANGED <<docs, dupIndex, wr, begun, stageResp, vin, vout, call>>

\* Lines 254-272: the inconsistencies of a completion: a note when subtotal,
\* tax and total are all truthy and subtotal + tax differs from total by more
\* than the tolerance.
inconsistencies(m) ==
    IF \E x \in {m.subtotal, m.tax, m.total} : IsNone(x) \/ x.cents = 0 THEN <<>>
    ELSE IF OverTolerance(FAdd(FromCents(m.subtotal.cents), FromCents(m.tax.cents)),
                          FromCents(m.total.cents))
    THEN <<"Math error">>
    ELSE <<>>

\* The same subtotal, tax and total are given to parse and to validate.
MathCalls == {[fn |-> "math", m |-> m] : m \in {x \in MathBoundaryInputs : x.items = <<>>}}

math_call ==
    /\ call.fn = "math"
    /\ ret = NoReturn
    /\ ret' = [fn |-> "math", inconsistencies |-> inconsistencies(call.m),
               reasons |-> MathReasons(call.m)]
    /\ UNCHANGED <<docs, dupIndex, wr, begun, stageResp, vin, vout, call>>

(***************************************************************************)
(* The pipeline as a state machine                                         *)
(***************************************************************************)

Init ==
    /\ docs = [d \in Docs |-> [status |-> "uploaded", fields |-> {}]]
    /\ dupIndex \in SUBSET Indexable
    /\ wr = [r \in Reqs |-> IdleReq]
    /\ begun = 0
    /\ stageResp = [stage |-> "none", code |-> 0, cause |-> "none", upd |-> "none"]
    /\ vin = NoInput
    /\ vout = NoResult
    /\ call = NoCall
    /\ ret = NoReturn

\* Write requests, up to two in flight at once.
NextWrite ==
    \/ \E r \in Reqs, d \in Docs, sig \in Signatures, force \in BOOLEAN, amount \in Amounts :
          WriteCheck(r, d, sig, force, amount)
    \/ \E r \in Reqs : WriteCommit(r)
    \/ \E r \in Reqs : WriteStatus(r)

Spec == Init /\ [][NextWrite]_vars

\* The three earlier stages, any number of times and in any order, and one
\* write request, on one document, one request at a time.
NextStages ==
    \/ \E d \in Docs, force \in BOOLEAN, amount \in Amounts :
          WriteCheck(1, d, "sigA", force, amount)
    \/ WriteCommit(1)
    \/ WriteStatus(1)
    \/ \E d \in Docs : ingest_document(d)
    \/ \E d \in Docs : extract_document_text(d)
    \/ \E d \in Docs : parse_document(d)

SpecStages == Init /\ [][NextStages]_vars

\* One validate request on drawn inputs, with "sigA" in the duplicate index.
InitValidate ==
    /\ docs = [d \in Docs |-> [status |-> "parsed", fields |-> {"parsed_fields"}]]
    /\ dupIndex = {"sigA"}
    /\ wr = [r \in Reqs |-> IdleReq]
    /\ begun = 0
    /\ stageResp = [stage |-> "none", code |-> 0, cause |-> "none", upd |-> "none"]
    /\ vin \in ValidateInputs
    /\ vout = NoResult
    /\ call = NoCall
    /\ ret = NoReturn

\* A validate request, and after an approved result the write request for the
\* same signature, its amount the validated total.
NextValidate ==
    \/ validate_document
    \/ /\ vout.status = "approved"
       /\ \E d \in Docs, force \in BOOLEAN : WriteCheck(1, d, vin.sig, force, "number")
    \/ WriteCommit(1)
    \/ WriteStatus(1)

SpecValidate == InitValidate /\ [][NextValidate]_vars

\* One call of a service function on drawn arguments.
ServiceCalls == ExtractCalls \cup SignatureCalls \cup ClassifyCalls \cup MathCalls

InitCalls ==
    /\ docs = [d \in Docs |-> [status |-> "uploaded", fields |-> {}]]
    /\ dupIndex = {}
    /\ wr = [r \in Reqs |-> IdleReq]
    /\ begun = 0
    /\ stageResp = [stage |-> "none", code |-> 0, cause |-> "none", upd |-> "none"]
    /\ vin = NoInput
    /\ vout = NoResult
    /\ call \in ServiceCalls
    /\ ret = NoReturn

NextCalls ==
    \/ extract_text_call
    \/ signature_call
    \/ classify_call
    \/ math_call

SpecCalls == InitCalls /\ [][NextCalls]_vars

(***************************************************************************)
(* Properties of write_transaction (checked under Spec)                    *)
(***************************************************************************)

Done(r) == wr[r].pc = "done"

Received(r) == wr[r].pc # "idle"

\* C1: starting from an index without S, a second non-forced write of S that
\* follows one answered `created` is answered `skipped_duplicate`, so it does
\* not create a second transaction (the duplicate lookup answering without
\* error).
C1_SecondWriteSkipped ==
    \A r \in Reqs :
       ( /\ Done(r) /\ ~wr[r].force /\ wr[r].sig # "" /\ wr[r].sig \notin dupIndex
         /\ wr[r].prior = "created" /\ wr[r].lookup = "ok"
         /\ wr[r].result \in {"created", "skipped_duplicate"} )
       => wr[r].result = "skipped_duplicate"

\* C2 as stated: a non-forced write whose signature is in the duplicate index
\* is answered skipped_duplicate and never calls the transaction store.
C2_IndexedIsSkipped ==
    \A r \in Reqs :
       (Received(r) /\ ~wr[r].force /\ wr[r].sig \in dupIndex)
       => /\ Done(r) /\ wr[r].result = "skipped_duplicate"
          /\ "transaction_store" \notin wr[r].calls

\* C2 amended: a non-forced write whose non-empty signature is in the
\* duplicate index, and whose lookup answered without error, is answered
\* skipped_duplicate; it calls no collaborator but the duplicate index.
C2_LookedUpIsSkipped ==
    \A r \in Reqs :
       (Received(r) /\ ~wr[r].force /\ wr[r].sig \in dupIndex /\ wr[r].lookup = "ok")
       => /\ Done(r) /\ wr[r].result = "skipped_duplicate"
          /\ wr[r].calls = {"duplicate_index"}
          /\ ~wr[r].committed

\* A non-forced write of an indexed signature with a good amount was skipped.
C2_Witness ==
    \E r \in Reqs :
       /\ Done(r) /\ ~wr[r].force /\ wr[r].sig \in dupIndex /\ wr[r].lookup = "ok"
       /\ wr[r].result = "skipped_duplicate" /\ wr[r].amount = "number"

\* C3 as stated: a forced write with a present non-zero amount is never
\* answered skipped_duplicate and always reaches the transaction store.
C3_ForcedReachesCreate ==
    \A r \in Reqs :
       (Done(r) /\ wr[r].force /\ wr[r].amount \notin {"absent", "zero"})
       => /\ wr[r].result # "skipped_duplicate"
          /\ "transaction_store" \in wr[r].calls

\* C3 amended: a forced write is never answered skipped_duplicate and never
\* consults the duplicate index, whatever the index holds; when its amount is
\* a non-zero number and its document lookup finds the document, it reaches
\* the transaction store, also when it follows a forced write of the same
\* signature that was answered `created`.
C3_ForcedBypassesIndex ==
    \A r \in Reqs :
       (Received(r) /\ wr[r].force)
       => /\ wr[r].result # "skipped_duplicate"
          /\ "duplicate_index" \notin wr[r].calls
          /\ (wr[r].amount = "number" /\ wr[r].fetch = "found")
                => "transaction_store" \in wr[r].calls

\* A forced write of an indexed signature, after a forced write of it was
\* answered `created`, was itself answered `created`.
C3_Witness ==
    \E r \in Reqs :
       /\ Done(r) /\ wr[r].force /\ wr[r].sig \in dupIndex /\ wr[r].prior = "created"
       /\ wr[r].amount = "number" /\ wr[r].fetch = "found"
       /\ "transaction_store" \in wr[r].calls /\ wr[r].result = "created"

\* C7: of two overlapping non-forced writes of the same signature, at most one
\* is answered `created` (both duplicate lookups answering without error).
C7_AtMostOneCreated ==
    \A r1, r2 \in Reqs :
       ( /\ r1 # r2 /\ Done(r1) /\ Done(r2)
         /\ wr[r2].prior = "inflight"
         /\ wr[r1].lookup = "ok" /\ wr[r2].lookup = "ok"
         /\ wr[r1].sig = wr[r2].sig /\ wr[r1].sig # ""
         /\ ~wr[r1].force /\ ~wr[r2].force )
       => ~(wr[r1].result = "created" /\ wr[r2].result = "created")

\* C10 as stated: a write whose amount is absent or zero fails with 400 and
\* has called no collaborator, for either value of force.
C10_NoAmountFailsFast ==
    \A r \in Reqs :
       (Received(r) /\ wr[r].amount \in {"absent", "zero"})
       => Done(r) /\ wr[r].result = "http400" /\ wr[r].calls = {}

\* C10 amended: a write whose amount is absent or zero never calls the document
\* store, the transaction store or the status store. When it does not consult
\* the duplicate index (force=true, or no signature) it fails with 400 before
\* any call; otherwise the duplicate index is consulted first and the answer is
\* skipped_duplicate when the lookup finds the signature, 400 when it does not.
C10_NoAmountNeverCommits ==
    \A r \in Reqs :
       (Received(r) /\ wr[r].amount \in {"absent", "zero"})
       => /\ Done(r) /\ ~wr[r].committed
          /\ wr[r].calls = (IF Consulted(wr[r]) THEN {"duplicate_index"} ELSE {})
          /\ wr[r].result =
               (IF Consulted(wr[r]) /\ wr[r].lookup = "ok" /\ wr[r].sig \in dupIndex
                THEN "skipped_duplicate" ELSE "http400")

\* A forced write with amount zero failed before any call, and a non-forced
\* write without amount failed after the duplicate lookup alone.
C10_Witness ==
    /\ \E r \in Reqs : /\ Done(r) /\ wr[r].amount = "zero" /\ wr[r].force
                       /\ wr[r].result = "http400" /\ wr[r].calls = {}
    /\ \E r \in Reqs : /\ Done(r) /\ wr[r].amount = "absent" /\ ~wr[r].force
                       /\ wr[r].result = "http400" /\ wr[r].calls = {"duplicate_index"}

(***************************************************************************)
(* Properties of the document status (checked under SpecStages)            *)
(***************************************************************************)

Rank(st) ==
    CASE st = "uploaded"            -> 0
      [] st = "ingested"            -> 1
      [] st = "processing"          -> 2
      [] st = "ocr_completed"       -> 3
      [] st = "parsed"              -> 4
      [] st = "transaction_created" -> 5
      [] st = "skipped_duplicate"   -> 5
      [] st = "failed"              -> 6

Terminal == {"transaction_created", "skipped_duplicate", "failed"}

\* C5: every status change moves a document forward along
\* ingested -> processing -> ocr_completed -> parsed -> transaction_created |
\* skipped_duplicate, or to failed; no stage puts an earlier status back.
C5_StatusMovesForward ==
    [][\A d \in Docs :
          docs'[d].status # docs[d].status
          => \/ Rank(docs'[d].status) > Rank(docs[d].status)
             \/ docs'[d].status = "failed"]_vars

\* C6: once a document's status is terminal, no stage changes its status or
\* its stored fields.
C6_TerminalIsAbsorbing ==
    [][\A d \in Docs :
          docs[d].status \in Terminal => docs'[d] = docs[d]]_vars


Answered == vout # NoResult

\* The signature of the validate request is in the duplicate index and the
\* index lookup answers.
FoundDuplicate == vin.sig \in dupIndex /\ vin.lookup = "ok"

C8_RejectedIffCritical ==
    (Answered /\ vin.sig \notin dupIndex)
        => LET critical == Codes(RuleReasons(vin))
                             \cap {"MISSING_FIELD", "INVALID_TOTAL", "FUTURE_DATE"} # {}
           IN  /\ vout.status = "rejected" <=> critical
               /\ vout.status = "rejected" <=>
                    Codes(vout.reasons)
                      \cap {"MISSING_FIELD", "INVALID_TOTAL", "FUTURE_DATE"} # {}
               /\ (~critical /\ RuleReasons(vin) # <<>>)
                    => (vout.status = "needs_review" /\ vout.reasons = RuleReasons(vin))

\* A request dated tomorrow, otherwise clean, was rejected for FUTURE_DATE alone.
C8_Witness ==
    /\ Answered /\ vin.sig \notin dupIndex
    /\ vin.date = DateAt(1)
    /\ vout.status = "rejected"
    /\ vout.reasons = <<"FUTURE_DATE">>

\* The mean of the three confidences is at least 0.70, in exact arithmetic.
MeanAtLeastThreshold(conf) == conf.merchant + conf.date + conf.total >= 3 * 70

\* C9: with no reason from the rules and no duplicate, the status is approved
\* exactly when the mean confidence of merchant, date and total is at least
\* 0.70 (a mean of exactly 0.70 is approved); otherwise it is needs_review with
\* the one reason LOW_CONFIDENCE.
C9_ApprovedIffConfident ==
    (Answered /\ ~check_duplicate(vin.sig, vin.lookup) /\ RuleReasons(vin) = <<>>)
        => IF MeanAtLeastThreshold(vin.conf)
           THEN vout.status = "approved" /\ vout.reasons = <<>>
           ELSE vout.status = "needs_review" /\ vout.reasons = <<"LOW_CONFIDENCE">>

(***************************************************************************)
(* Failure of the transaction store (checked under Spec)                   *)
(***************************************************************************)

\* Request r's call of the transaction store fails in this step: the request
\* was about to commit and is answered having called the store.
CreateFails(r) ==
    /\ wr[r].pc = "commit"
    /\ wr'[r].pc = "done"
    /\ "transaction_store" \in wr'[r].calls

\* C11: when the transaction store raises or reports success=false, the
\* document's status is set to failed carrying the error, the caller gets a
\* 5xx and never `created`, and the status is not set to transaction_created.
C11_CreateFailureMarksFailed ==
    [][\A r \in Reqs :
          CreateFails(r)
          => /\ wr'[r].result = "http500"
             /\ docs'[wr[r].doc].status = "failed"
             /\ "processing_error" \in docs'[wr[r].doc].fields]_vars

\* C11 (amended): the caller gets a 5xx and never `created`, and the request
\* makes no transaction_created update; the document's status is set to failed
\* carrying the error when the status update succeeds, and the document is
\* left as it was when the status update fails as well.
C11_CreateFailureAnswers500 ==
    [][\A r \in Reqs :
          CreateFails(r)
          => /\ wr'[r].result = "http500"
             /\ ~wr'[r].committed
             /\ wr'[r].upd \in {"ok", "fail"}
             /\ wr'[r].upd = "ok"
                  => /\ docs'[wr[r].doc].status = "failed"
                     /\ "processing_error" \in docs'[wr[r].doc].fields
             /\ wr'[r].upd = "fail" => docs' = docs]_vars

\* A request whose create call failed was answered 500 and left its document
\* failed with the error.
C11_Witness ==
    \E r \in Reqs :
       /\ Done(r) /\ wr[r].result = "http500" /\ wr[r].amount = "number"
       /\ "transaction_store" \in wr[r].calls /\ wr[r].upd = "ok"
       /\ docs[wr[r].doc].status = "failed"
       /\ "processing_error" \in docs[wr[r].doc].fields

\* C12: when write answers skipped_duplicate for a document, that document's
\* status becomes skipped_duplicate.
C12_SkippedIsRecorded ==
    [][\A r \in Reqs :
          (wr'[r] # wr[r] /\ wr'[r].pc = "done" /\ wr'[r].result = "skipped_duplicate")
          => docs'[wr'[r].doc].status = "skipped_duplicate"]_vars

(***************************************************************************)
(* Properties of extract_text (checked under SpecCalls)                    *)
(***************************************************************************)

\* extract_text has returned or raised for a scanned document.
ScannedExtracted ==
    call.fn = "extract_text" /\ ret.fn = "extract_text" /\ call.ingest_kind = "scanned"

\* Provider p is enabled and returns non-empty text for the file of call c.
Works(c, p) ==
    /\ c.enabled[p]
    /\ c.behaviour[p] = "text"
    /\ p = "mistral" => (c.mime # "application/pdf" /\ c.hasKey)

\* C13: for a scanned document the provider reported is the first enabled
\* provider, in priority order, that returns non-empty text: a provider that
\* times out, fails or returns nothing is followed by the next enabled one.
C13_FirstWorkingProviderWins ==
    ScannedExtracted
        => \A i \in 1..Len(Providers) :
              ( /\ Works(call, Providers[i])
                /\ \A j \in 1..(i - 1) : ~Works(call, Providers[j]) )
              => (ret.ok /\ ret.provider = Providers[i] /\ ret.text = "text")

\* C14: for a scanned document extract_text fails exactly when no enabled
\* provider returns non-empty text, and then with the error that no provider
\* is available, never with a provider's own error.
C14_NoProviderAvailable ==
    ScannedExtracted
        => /\ ~ret.ok <=> \A p \in ProviderNames : ~Works(call, p)
           /\ ~ret.ok => ret.error = "No OCR provider enabled for scanned documents"

(***************************************************************************)
(* Failures of extract and parse (checked under SpecStages)                *)
(***************************************************************************)

\* This step is an extract or parse request that fails because a collaborator
\* (file download, document lookup, text extraction, completion) failed.
StageFails ==
    /\ wr' = wr /\ begun' = begun
    /\ stageResp'.stage \in {"extract", "parse"}
    /\ stageResp'.cause \in {"download", "document_lookup", "text_extraction", "completion"}

\* C15: an extract or parse request that fails because a collaborator failed
\* leaves the document failed, with the error, and answers 5xx.
C15_StageFailureMarksFailed ==
    [][StageFails
         => /\ stageResp'.code >= 500
            /\ \A d \in Docs : /\ docs'[d].status = "failed"
                               /\ "processing_error" \in docs'[d].fields]_vars

\* C16: validate never fails for business-rule reasons: whatever the fields
\* hold (a non-numeric total, subtotal or tax, a date that is no string), the
\* answer is a result whose status is approved, needs_review or rejected.
C16_ValidateAlwaysAnswers ==
    Answered => vout.status \in {"approved", "needs_review", "rejected"}

\* A request with a non-numeric total and a date that is a number was
\* answered needs_review, each rule reporting VALIDATION_ERROR.
C16_Witness ==
    /\ Answered
    /\ vin.total.kind = "text" /\ vin.date.kind = "number" /\ vin.merchant = "Starbucks"
    /\ vout.status = "needs_review"
    /\ vout.reasons = <<"VALIDATION_ERROR", "VALIDATION_ERROR">>

\* The specification's normalization of a merchant: case and surrounding
\* whitespace do not count.
Lower(ch) == CASE ch = "S" -> "s" [] ch = "B" -> "b" [] OTHER -> ch

RECURSIVE Strip(_)
Strip(s) ==
    IF s = <<>> THEN s
    ELSE IF Head(s) = " " THEN Strip(Tail(s))
    ELSE IF s[Len(s)] = " " THEN Strip(SubSeq(s, 1, Len(s) - 1))
    ELSE s

\* A component the completion does not give: the field is absent, null, or an
\* object whose value is absent or null.
Missing(field) ==
    \/ field.form \in {"absent", "null", "novalue"}
    \/ field.form = "dict" /\ field.v.t = "none"

\* The normalized (merchant, date, total) of a completion that gives all
\* three, the total in hundredths.
Normalized(p) ==
    <<[i \in 1..Len(Strip(p.merchant.v.s)) |-> Lower(Strip(p.merchant.v.s)[i])],
      p.date.v.s,
      IF p.total.v.t = "int" THEN 100 * p.total.v.n ELSE p.total.v.n>>

\* C17: two parse results whose merchant, date and total agree after
\* normalization (case, surrounding whitespace, numerically equal totals) get
\* identical signatures.
C17_SameTripleSameSignature ==
    (/\ call.fn = "signature" /\ ret.fn = "signature"
     /\ \A p \in {call.a, call.b} :
            ~Missing(p.merchant) /\ ~Missing(p.date) /\ ~Missing(p.total)
     /\ Normalized(call.a) = Normalized(call.b))
    => ret.a = ret.b

\* The signature string the specification describes: `unknown` for a missing
\* merchant or date, `0` for a missing total.
Defaulted(p) ==
    (IF Missing(p.merchant) THEN Unknown ELSE Format(p.merchant.v)) \o <<"|">>
    \o (IF Missing(p.date) THEN Unknown ELSE Format(p.date.v)) \o <<"|">>
    \o (IF Missing(p.total) THEN <<"0">> ELSE Format(p.total.v))

\* C18: a missing merchant or date (field absent, or present with a null
\* value) is hashed as `unknown` and a missing total as `0`, so that an absent
\* field and a null-valued one yield the same signature.
C18_MissingHashedAsDefault ==
    (call.fn = "signature" /\ ret.fn = "signature")
    => /\ ret.a = sha256(Defaulted(call.a))
       /\ ret.b = sha256(Defaulted(call.b))

\* C19: classification always answers digital or scanned: a PDF is digital
\* when the stripped text of the probe is longer than 50 characters, scanned
\* when it is 50 or shorter or the probe fails; an image is scanned.
C19_ClassifyIsTotal ==
    (call.fn = "classify" /\ ret.fn = "classify")
    => /\ ret.ingest_kind \in {"digital", "scanned"}
       /\ (call.mime = "application/pdf" /\ call.probe.ok /\ call.probe.len > 50)
          => ret.ingest_kind = "digital"
       /\ (call.mime = "application/pdf" /\ call.probe.ok /\ call.probe.len <= 50)
          => ret.ingest_kind = "scanned"
       /\ (call.mime = "application/pdf" /\ ~call.probe.ok)
          => ret.ingest_kind = "scanned"
       /\ call.mime = "image/png" => ret.ingest_kind = "scanned"

\* A PDF whose probe gives exactly 50 characters has been classified.
C19_Witness ==
    /\ call.fn = "classify" /\ ret.fn = "classify"
    /\ call.mime = "application/pdf" /\ call.probe = ProbeText(50)
    /\ ret.ingest_kind = "scanned"

\* C20: a well-formed date exactly 1825 days before the current date gets no
\* DATE_TOO_OLD reason and a date 1826 or more days before it gets one, at
\* whatever time of day validate runs.
C20_AgeBoundary ==
    (Answered /\ ~FoundDuplicate /\ vin.date.kind = "date")
    => /\ vin.date.off = -1825 => "DATE_TOO_OLD" \notin Codes(vout.reasons)
       /\ vin.date.off <= -1826 => "DATE_TOO_OLD" \in Codes(vout.reasons)

\* C21: a well-formed date after the current date gets FUTURE_DATE and the
\* result is rejected; a date equal to the current date gets no FUTURE_DATE; a
\* value that does not parse as YYYY-MM-DD gets INVALID_DATE_FORMAT and neither
\* FUTURE_DATE nor DATE_TOO_OLD.
C21_DateRule ==
    Answered
    => /\ (vin.date.kind = "date" /\ vin.date.off > 0)
          => ("FUTURE_DATE" \in Codes(vout.reasons) /\ vout.status = "rejected")
       /\ (vin.date.kind = "date" /\ vin.date.off = 0)
          => "FUTURE_DATE" \notin Codes(vout.reasons)
       /\ vin.date.kind \in {"text", "number"}
          => /\ "INVALID_DATE_FORMAT" \in Codes(vout.reasons)
             /\ Codes(vout.reasons) \cap {"FUTURE_DATE", "DATE_TOO_OLD"} = {}

\* C22: parse notes a math mismatch exactly when validate reports MATH_ERROR,
\* that is when subtotal, tax and total are all present (0 counts as present)
\* and |subtotal + tax - total| exceeds the tolerance of 0.01.
C22_ParseAndValidateAgree ==
    (call.fn = "math" /\ ret.fn = "math")
    => /\ ret.inconsistencies # <<>> <=> "MATH_ERROR" \in Codes(ret.reasons)
       /\ "MATH_ERROR" \in Codes(ret.reasons)
          <=> /\ \A x \in {call.m.subtotal, call.m.tax, call.m.total} : x.kind = "number"
              /\ \/ call.m.subtotal.cents + call.m.tax.cents - call.m.total.cents > 1
                 \/ call.m.total.cents - call.m.subtotal.cents - call.m.tax.cents > 1

\* C23: validate reports MATH_ERROR exactly when subtotal, tax and total are
\* all present and |subtotal + tax - total| exceeds the tolerance of 0.01; a
\* difference of exactly the tolerance gives none.
C23_MathError ==
    (Answered /\ vin \in MathBoundary)
    => ("MATH_ERROR" \in Codes(vout.reasons)
        <=> /\ \A x \in {vin.subtotal, vin.tax, vin.total} : x.kind = "number"
            /\ \/ vin.subtotal.cents + vin.tax.cents - vin.total.cents > 1
               \/ vin.total.cents - vin.subtotal.cents - vin.tax.cents > 1)

RECURSIVE SumCents(_)
\* The sum of the item amounts, in exact arithmetic.
SumCents(items) == IF items = <<>> THEN 0 ELSE Head(items) + SumCents(Tail(items))

\* C24: validate reports ITEMS_MISMATCH exactly when the items list is not
\* empty, subtotal is present and |sum of item amounts - subtotal| exceeds the
\* tolerance, whatever the other rules found, a missing or invalid total
\* included.
C24_ItemsMismatch ==
    (Answered /\ vin \in MathBoundary)
    => ("ITEMS_MISMATCH" \in Codes(vout.reasons)
        <=> /\ vin.items # <<>>
            /\ vin.subtotal.kind = "number"
            /\ \/ SumCents(vin.items) - vin.subtotal.cents > 1
               \/ vin.subtotal.cents - SumCents(vin.items) > 1)

\* C25: the reasons hold one MISSING_FIELD for each of merchant, date and
\* total that is absent and one EMPTY_FIELD for each that is null or empty,
\* and these precede the reasons of the math, date and currency rules.
C25_SchemaReasons ==
    Answered
    => LET r == vout.reasons
           schema == {i \in 1..Len(r) : r[i] \in {"MISSING_FIELD", "EMPTY_FIELD"}}
           absent == {x \in {"merchant", "date", "total"} :
                        \/ x = "merchant" /\ vin.merchant = "absent"
                        \/ x = "date" /\ vin.date.kind = "absent"
                        \/ x = "total" /\ vin.total.kind = "absent"}
           empty == {x \in {"merchant", "date", "total"} :
                        \/ x = "merchant" /\ vin.merchant \in {"null", "empty"}
                        \/ x = "date" /\ vin.date.kind \in {"null", "empty"}
                        \/ x = "total" /\ vin.total.kind \in {"null", "empty"}}
       IN  /\ Cardinality({i \in schema : r[i] = "MISSING_FIELD"}) = Cardinality(absent)
           /\ Cardinality({i \in schema : r[i] = "EMPTY_FIELD"}) = Cardinality(empty)
           /\ schema = 1..Cardinality(schema)

\* A request with an empty merchant, no date, a null total and an unsupported
\* currency got three schema reasons and then the currency reason.
C25_Witness ==
    /\ Answered /\ vin.sig \notin dupIndex
    /\ vin.merchant = "empty" /\ vin.date.kind = "absent" /\ vin.total.kind = "null"
    /\ vout.reasons = <<"EMPTY_FIELD", "MISSING_FIELD", "EMPTY_FIELD", "UNSUPPORTED_CURRENCY">>

\* C26: every result of validate carries a status badge that matches its
\* status and a confidence badge: High when the overall confidence is at least
\* 0.9, Medium when it is at least 0.7, Low otherwise; a clean record whose
\* confidences are all 0.9 is approved with Auto-Approved and High.
C26_BothBadges ==
    Answered
    => LET oc == OverallConfidence(PresentConfidences(vin))
       IN  /\ vout.status = "rejected" => vout.badges.status = "Rejected"
           /\ vout.status = "needs_review"
              => vout.badges.status \in {"Needs Review", "Low Confidence"}
           /\ vout.status = "approved" => vout.badges.status = "Auto-Approved"
           /\ vout.badges.confidence =
                (IF oc.high THEN "High" ELSE IF ~oc.below THEN "Medium" ELSE "Low")
           /\ (/\ vin.merchant = "Starbucks" /\ vin.date = DateAt(0)
               /\ vin.total = Num(1250) /\ vin.subtotal = NumAbsent /\ vin.tax = NumAbsent
               /\ vin.items = <<>> /\ vin.currency = "MYR"
               /\ vin.conf = [merchant |-> 90, date |-> 90, total |-> 90]
               /\ ~FoundDuplicate)
              => (vout.status = "approved"
                  /\ vout.badges = [status |-> "Auto-Approved", confidence |-> "High"])

C29_UpdateFailureSwallowed ==
    [][/\ (wr' = wr /\ stageResp'.code = 200)
          => \A d \in Docs :
                IF stageResp'.upd = "fail"
                THEN /\ docs'[d].status \in
                          {docs[d].status} \cup
                          (IF stageResp'.stage = "extract" THEN {"processing"} ELSE {})
                     /\ docs'[d].fields = docs[d].fields
                ELSE docs'[d].status =
                       (CASE stageResp'.stage = "ingest" -> "ingested"
                          [] stageResp'.stage = "extract" -> "ocr_completed"
                          [] stageResp'.stage = "parse" -> "parsed")
       /\ \A r \in Reqs :
             (wr[r].pc = "status" /\ wr'[r].pc = "done")
             => /\ wr'[r].result = "created"
                /\ IF wr'[r].upd = "fail" THEN docs' = docs
                   ELSE docs'[wr[r].doc].status = "transaction_created"]_vars

\* Write answered `created` and extract answered with the text, both status
\* updates failing: the status is neither transaction_created nor
\* ocr_completed.
C29_Witness ==
    /\ wr[1].result = "created" /\ wr[1].upd = "fail"
    /\ stageResp.stage = "extract" /\ stageResp.code = 200 /\ stageResp.upd = "fail"
    /\ docs[1].status \notin {"transaction_created", "ocr_completed"}

\* C30: when a PDF is classified digital (the stripped text of the probe is
\* longer than 50 characters), native extraction of the same bytes does not
\* fail for insufficient text: it returns the text with provider native-text
\* and confidence 0.95.
C30_DigitalIsExtractable ==
    (/\ call.fn = "extract_text" /\ ret.fn = "extract_text"
     /\ call.mime = "application/pdf"
     /\ classify(call.mime, call.probe) = "digital"
     /\ call.ingest_kind = "digital")
    => /\ ret.ok
       /\ ret.provider = "native-text"
       /\ ret.confidence_hint = 95

\* A PDF whose probe gives 51 characters, classified digital, was extracted
\* natively.
C30_Witness ==
    /\ call.fn = "extract_text" /\ ret.fn = "extract_text"
    /\ call.mime = "application/pdf" /\ call.probe = ProbeText(51)
    /\ call.ingest_kind = "digital"
    /\ ret.ok /\ ret.provider = "native-text"

====
